---- MODULE Spec2Model ----
(***************************************************************************)
(* Model of the MCP job-orchestration core: the dispatch registry          *)
(* (AgentRegistry), the coordinator and job store (MCPServer) and the      *)
(* artifact registry (ArtifactRegistry).                                   *)
(*                                                                         *)
(* Scheduling model: one asyncio event loop.  Every action is one          *)
(* uninterrupted run of a coroutine between two suspension points; the     *)
(* only suspension point of an execution unit is the outbound HTTP call.   *)
(***************************************************************************)
EXTENDS Integers, Sequences, FiniteSets, TLC

\* ------------------------------------------------------------------ bounds
MaxJobs == 2
MaxClock == 1
MaxArtifacts == 2
MaxDeps == 2
MaxLimit == 2
MaxInstances == 3

\* ------------------------------------------------------------ value domains
\* Optional[T]: None is the empty tuple, a present value x is <<x>>.
None == <<>>
Some(x) == <<x>>

JobTypes == {"ml_experiment", "backtest", "generic"}
ServiceTypes == {"ml_experiment", "backtest"}
AgentClasses == {"MLAgent", "BacktestAgent"}
ServiceUrls == {"http://svc"}
\* the local handlers registered while jobs run (tests/test_core.py:109)
LocalRegistrations == {<<"ml_experiment", "MLAgent">>}

JobStatus == {"pending", "running", "completed", "failed", "cancelled"}
TerminalStatus == {"completed", "failed", "cancelled"}

ArtifactTypes == {"model", "plot"}
\* (type, producing job, producing service) of the registrations a caller makes
ArtifactProfiles ==
    { <<"model", Some(1), Some("svc")>>, <<"plot", None, None>> }
Payloads == {"p1"}

JobIds == 1..MaxJobs
\* Ids a caller may name: every id the store can issue and one it never issues.
UnknownJobId == MaxJobs + 1
CallerJobIds == 1..UnknownJobId

VARIABLES
    agents,             \* AgentRegistry._agents: job type -> backend descriptor
    instances,          \* AgentRegistry._instances: job type -> handler instance
    instance_count,     \* number of handler objects constructed so far
    jobs,               \* MCPServer.jobs: job id -> Job record
    running_tasks,      \* MCPServer.running_tasks: the job ids that have an entry
    task,               \* the asyncio.Task of each job: its position and cancel flag
    http_session,       \* MCPServer._http_session: "none", "open" or "closed"
    shutdown_pc,        \* position of the shutdown coroutine
    gathered,           \* the tasks shutdown's gather is waiting for
    artifact_registry,  \* ArtifactRegistry: primary store and the three indexes
    artifact_uuid,      \* number of artifact ids issued so far
    clock,              \* the wall clock read by datetime.utcnow()
    status_writes,      \* history: every value assigned to job.status, in order
    cancel_won,         \* history: the jobs for which cancel_job returned True
    deleted,            \* history: the ids each deleted artifact had declared edges onto
    dispatched,         \* history: what each pass of a job's unit resolved and called
    ret                 \* the last API call and what it returned

registryVars == <<agents, instances, instance_count>>
serverVars == <<jobs, running_tasks, task, http_session, shutdown_pc, gathered>>
artifactVars == <<artifact_registry, artifact_uuid>>
historyVars == <<status_writes, cancel_won, deleted, dispatched>>
vars == <<agents, instances, instance_count, jobs, running_tasks, task, http_session, shutdown_pc,
          gathered, artifact_registry, artifact_uuid, clock, status_writes,
          cancel_won, deleted, dispatched, ret>>

\* datetime.utcnow(): the clock does not run backwards; two reads may agree.
Now(c) == {t \in {c, c + 1} : t <= MaxClock}

\* dict[k] = v
Put(d, k, v) == [x \in (DOMAIN d) \cup {k} |-> IF x = k THEN v ELSE d[x]]

\* dict.get(k, default)
Get(d, k, default) == IF k \in DOMAIN d THEN d[k] ELSE default

EmptyDict == [x \in {} |-> None]

RECURSIVE SeqFilterOut(_, _)
\* [x for x in s if x != v]
SeqFilterOut(s, v) ==
    IF s = <<>> THEN <<>>
    ELSE IF Head(s) = v THEN SeqFilterOut(Tail(s), v)
    ELSE <<Head(s)>> \o SeqFilterOut(Tail(s), v)

RECURSIVE ListRemove(_, _)
\* list.remove(v): drops the first occurrence only
ListRemove(s, v) ==
    IF s = <<>> THEN <<>>
    ELSE IF Head(s) = v THEN Tail(s)
    ELSE <<Head(s)>> \o ListRemove(Tail(s), v)

SeqRange(s) == {s[i] : i \in 1..Len(s)}

Min(a, b) == IF a <= b THEN a ELSE b

\* ------------------------------------------------------- dispatch registry
LocalBackend(cls) == [kind |-> "local", backend |-> cls]
RemoteBackend(url) == [kind |-> "remote", backend |-> url]

\* mutant: a type counts as handled only once a handler object exists for it
can_handle_job_ByInstance(job_type) == job_type \in DOMAIN instances

\* AgentRegistry.can_handle_job
can_handle_job(job_type) == job_type \in DOMAIN agents

\* AgentRegistry.get_service_url: the address of a remote backend, else None
get_service_url(job_type) ==
    IF job_type \in DOMAIN agents /\ agents[job_type].kind = "remote"
    THEN Some(agents[job_type].backend)
    ELSE None

\* AgentRegistry.register
register(job_type, agent_class) ==
    /\ agents' = Put(agents, job_type, LocalBackend(agent_class))
    /\ UNCHANGED <<instances, instance_count, serverVars, artifactVars, clock,
                   historyVars, ret>>

\* AgentRegistry.register_external_service
register_external_service(job_type, service_url) ==
    /\ agents' = Put(agents, job_type, RemoteBackend(service_url))
    /\ UNCHANGED <<instances, instance_count, serverVars, artifactVars, clock,
                   historyVars, ret>>

\* AgentRegistry.clear
clear ==
    /\ agents' = EmptyDict
    /\ instances' = EmptyDict
    /\ ret' = [op |-> "clear", arg |-> None, val |-> None]
    /\ UNCHANGED <<instance_count, serverVars, artifactVars, clock, historyVars>>

\* agent_class(): a new handler object; serial tells objects of one class apart
NewInstance(agent_class, serial) == [cls |-> agent_class, serial |-> serial]

\* mutant: the instance cache is never consulted
HasInstance_Never(job_type) == FALSE

\* get_agent line 91: an instance for the type is cached
HasInstance(job_type) == job_type \in DOMAIN instances

\* AgentRegistry.get_agent.  ret.arg is the type asked for and whether the
\* cached instance was reused.
get_agent(job_type) ==
    /\ IF job_type \notin DOMAIN agents
       THEN /\ ret' = [op |-> "get_agent", arg |-> <<job_type, FALSE>>, val |-> None]
            /\ UNCHANGED <<instances, instance_count>>
       ELSE IF ~HasInstance(job_type)
       THEN LET made == NewInstance(agents[job_type].backend, instance_count + 1)
            IN /\ instance_count < MaxInstances
               /\ instances' = Put(instances, job_type, made)
               /\ instance_count' = instance_count + 1
               /\ ret' = [op |-> "get_agent", arg |-> <<job_type, FALSE>>,
                          val |-> Some(made)]
       ELSE /\ ret' = [op |-> "get_agent", arg |-> <<job_type, TRUE>>,
                       val |-> Some(instances[job_type])]
            /\ UNCHANGED <<instances, instance_count>>
    /\ UNCHANGED <<agents, serverVars, artifactVars, clock, historyVars>>

\* the JobType members in declaration order
JobTypeOrder == <<"ml_experiment", "backtest", "generic">>

\* AgentRegistry.get_supported_job_types: list(_agents.keys()).  A dict holds
\* each key once; the list is given here in declaration order, not in the
\* order of first registration.
get_supported_job_types == SelectSeq(JobTypeOrder, LAMBDA t : t \in DOMAIN agents)

\* ------------------------------------------------------- artifact registry
\* ArtifactReference, as far as the registry reads it
ArtifactReference(artifact_id, artifact_type) ==
    [artifact_id |-> artifact_id, artifact_type |-> artifact_type]

\* ArtifactRegistration: what a caller supplies
ArtifactRegistration(type, job_id, service_id, dependencies) ==
    [type |-> type, job_id |-> job_id, service_id |-> service_id,
     dependencies |-> dependencies]

\* Artifact (with its ArtifactMetadata) as built by register_artifact
Artifact(id, registration, now) ==
    [id |-> id, type |-> registration.type, created_at |-> now,
     created_by |-> registration.job_id, job_id |-> registration.job_id,
     service_id |-> registration.service_id,
     dependencies |-> registration.dependencies, referenced_by |-> <<>>]

\* ArtifactRegistry.__init__
EmptyRegistry ==
    [artifacts |-> EmptyDict, artifacts_by_job |-> EmptyDict,
     artifacts_by_service |-> EmptyDict, artifacts_by_type |-> EmptyDict]

\* one index bucket update of _update_indexes
IndexAdd(index, key, artifact_id) ==
    LET bucket == Get(index, key, <<>>)
    IN Put(index, key,
           IF artifact_id \in SeqRange(bucket) THEN bucket
           ELSE Append(bucket, artifact_id))

\* one index bucket update of _remove_from_indexes
IndexRemove(index, key, artifact_id) ==
    IF key \in DOMAIN index /\ artifact_id \in SeqRange(index[key])
    THEN [index EXCEPT ![key] = ListRemove(index[key], artifact_id)]
    ELSE index

\* mutant: the type index is not maintained on registration
update_indexes_SkipType(reg, artifact) ==
    [reg EXCEPT
       !.artifacts_by_job =
           IF artifact.job_id # None
           THEN IndexAdd(@, artifact.job_id[1], artifact.id) ELSE @,
       !.artifacts_by_service =
           IF artifact.service_id # None
           THEN IndexAdd(@, artifact.service_id[1], artifact.id) ELSE @]

\* ArtifactRegistry._update_indexes
update_indexes(reg, artifact) ==
    [reg EXCEPT
       !.artifacts_by_job =
           IF artifact.job_id # None
           THEN IndexAdd(@, artifact.job_id[1], artifact.id) ELSE @,
       !.artifacts_by_service =
           IF artifact.service_id # None
           THEN IndexAdd(@, artifact.service_id[1], artifact.id) ELSE @,
       !.artifacts_by_type = IndexAdd(@, artifact.type, artifact.id)]

\* mutant: the service index is left alone
remove_from_indexes_KeepService(reg, artifact) ==
    [reg EXCEPT
       !.artifacts_by_job =
           IF artifact.job_id # None
           THEN IndexRemove(@, artifact.job_id[1], artifact.id) ELSE @,
       !.artifacts_by_type = IndexRemove(@, artifact.type, artifact.id)]

\* ArtifactRegistry._remove_from_indexes
remove_from_indexes(reg, artifact) ==
    [reg EXCEPT
       !.artifacts_by_job =
           IF artifact.job_id # None
           THEN IndexRemove(@, artifact.job_id[1], artifact.id) ELSE @,
       !.artifacts_by_service =
           IF artifact.service_id # None
           THEN IndexRemove(@, artifact.service_id[1], artifact.id) ELSE @,
       !.artifacts_by_type = IndexRemove(@, artifact.type, artifact.id)]

RECURSIVE AddReferences(_, _, _)
\* the loop of _update_dependency_references over the declared edges
AddReferences(artifacts, artifact, deps) ==
    IF deps = <<>> THEN artifacts
    ELSE LET target == Head(deps).artifact_id
             next == IF target \in DOMAIN artifacts
                     THEN [artifacts EXCEPT ![target].referenced_by =
                              Append(@, ArtifactReference(artifact.id, artifact.type))]
                     ELSE artifacts
         IN AddReferences(next, artifact, Tail(deps))

\* mutant: no reverse edge is recorded
update_dependency_references_Skip(reg, artifact) == reg

\* ArtifactRegistry._update_dependency_references
update_dependency_references(reg, artifact) ==
    [reg EXCEPT !.artifacts = AddReferences(@, artifact, artifact.dependencies)]

RECURSIVE DropRefsOf(_, _)
\* [ref for ref in referenced_by if ref.artifact_id != artifact_id]
DropRefsOf(refs, artifact_id) ==
    IF refs = <<>> THEN <<>>
    ELSE IF Head(refs).artifact_id = artifact_id THEN DropRefsOf(Tail(refs), artifact_id)
    ELSE <<Head(refs)>> \o DropRefsOf(Tail(refs), artifact_id)

RECURSIVE RemoveReferences(_, _, _)
\* the loop of _remove_dependency_references over the declared edges
RemoveReferences(artifacts, artifact, deps) ==
    IF deps = <<>> THEN artifacts
    ELSE LET target == Head(deps).artifact_id
             next == IF target \in DOMAIN artifacts
                     THEN [artifacts EXCEPT ![target].referenced_by =
                              DropRefsOf(@, artifact.id)]
                     ELSE artifacts
         IN RemoveReferences(next, artifact, Tail(deps))

\* mutant: the reverse edges of a deleted artifact are left in place
remove_dependency_references_Skip(reg, artifact) == reg

\* ArtifactRegistry._remove_dependency_references
remove_dependency_references(reg, artifact) ==
    [reg EXCEPT !.artifacts = RemoveReferences(@, artifact, artifact.dependencies)]

\* mutant: no duplicate test, the record is stored over the live one
RegisterArtifact_Overwrite(reg, id, registration, now) ==
    LET artifact == Artifact(id, registration, now)
    IN update_dependency_references(
           update_indexes([reg EXCEPT !.artifacts = Put(@, id, artifact)], artifact),
           artifact)

\* ArtifactRegistry.register_artifact on the registry value: the registry after
\* the call; an id collision raises and leaves it as it was
RegisterArtifact(reg, id, registration, now) ==
    LET artifact == Artifact(id, registration, now)
    IN IF id \in DOMAIN reg.artifacts THEN reg
       ELSE update_dependency_references(
                update_indexes(
                    [reg EXCEPT !.artifacts = Put(@, id, artifact)], artifact),
                artifact)

\* mutant: the indexes and reverse edges are stripped but the record stays
DeleteArtifact_KeepRecord(reg, artifact_id) ==
    IF artifact_id \notin DOMAIN reg.artifacts THEN reg
    ELSE remove_dependency_references(
             remove_from_indexes(reg, reg.artifacts[artifact_id]),
             reg.artifacts[artifact_id])

\* mutant: deletion also strips the edges other artifacts declare onto the id
DeleteArtifact_PruneDependents(reg, artifact_id) ==
    IF artifact_id \notin DOMAIN reg.artifacts THEN reg
    ELSE LET artifact == reg.artifacts[artifact_id]
             stripped == remove_dependency_references(
                             remove_from_indexes(reg, artifact), artifact)
         IN [stripped EXCEPT !.artifacts =
                [x \in (DOMAIN @) \ {artifact_id} |->
                    [@[x] EXCEPT !.dependencies = DropRefsOf(@, artifact_id)]]]

\* ArtifactRegistry.delete_artifact on the registry value
DeleteArtifact(reg, artifact_id) ==
    IF artifact_id \notin DOMAIN reg.artifacts THEN reg
    ELSE LET artifact == reg.artifacts[artifact_id]
             stripped == remove_dependency_references(
                             remove_from_indexes(reg, artifact), artifact)
         IN [stripped EXCEPT !.artifacts =
                [x \in (DOMAIN @) \ {artifact_id} |-> @[x]]]

\* ArtifactRegistry.get_artifact
get_artifact(artifact_id) == Get(artifact_registry.artifacts, artifact_id, None)

RECURSIVE ResolveRefs(_, _)
\* the resolution loop shared by the two graph reads: live targets, in order
ResolveRefs(artifacts, refs) ==
    IF refs = <<>> THEN <<>>
    ELSE (IF Head(refs).artifact_id \in DOMAIN artifacts
          THEN <<Head(refs).artifact_id>> ELSE <<>>)
         \o ResolveRefs(artifacts, Tail(refs))

\* the ids a list of edges names, in order
EdgeIds(refs) == [i \in 1..Len(refs) |-> refs[i].artifact_id]

\* mutant: every declared edge is reported, resolved or not
get_artifact_dependencies_Unresolved(artifact_id) ==
    IF artifact_id \notin DOMAIN artifact_registry.artifacts THEN <<>>
    ELSE EdgeIds(artifact_registry.artifacts[artifact_id].dependencies)

\* ArtifactRegistry.get_artifact_dependencies (the ids of the records returned)
get_artifact_dependencies(artifact_id) ==
    IF artifact_id \notin DOMAIN artifact_registry.artifacts THEN <<>>
    ELSE ResolveRefs(artifact_registry.artifacts,
                     artifact_registry.artifacts[artifact_id].dependencies)

\* ArtifactRegistry.get_artifact_references (the ids of the records returned)
get_artifact_references(artifact_id) ==
    IF artifact_id \notin DOMAIN artifact_registry.artifacts THEN <<>>
    ELSE ResolveRefs(artifact_registry.artifacts,
                     artifact_registry.artifacts[artifact_id].referenced_by)

\* ArtifactRegistry.get_artifacts_by_job on the registry value (the ids of
\* the records returned)
GetArtifactsByJob(reg, job_id) ==
    SelectSeq(Get(reg.artifacts_by_job, job_id, <<>>),
              LAMBDA aid : aid \in DOMAIN reg.artifacts)

\* ArtifactRegistry.get_artifacts_by_job
get_artifacts_by_job(job_id) == GetArtifactsByJob(artifact_registry, job_id)

\* ------------------------------------------------------------ job records
\* mutant: a new job is born Running, stamped with its creation time
Job_BornRunning(id, type, payload, now) ==
    [id |-> id, type |-> type, payload |-> payload, status |-> "running",
     created_at |-> now, started_at |-> Some(now), completed_at |-> None,
     result |-> None, error |-> None]

\* Job(type=..., payload=...): the defaults of the Job model
Job(id, type, payload, now) ==
    [id |-> id, type |-> type, payload |-> payload, status |-> "pending",
     created_at |-> now, started_at |-> None, completed_at |-> None,
     result |-> None, error |-> None]

\* asyncio.create_task: a task that has not taken its first step
NewTask == [pc |-> "scheduled", must_cancel |-> FALSE]

\* mutant: only a task that is waiting can be interrupted, one that has not
\* started runs its body
TaskCancel_OnlyWhileWaiting(t) ==
    IF t.pc = "awaiting" THEN [t EXCEPT !.must_cancel = TRUE] ELSE t

\* Task.cancel(): a finished task ignores it, any other is interrupted at its
\* next step
TaskCancel(t) == IF t.pc = "done" THEN t ELSE [t EXCEPT !.must_cancel = TRUE]

\* mutant: a unit that has run to its end is scheduled again
TaskReturn_Reschedule(t) == [t EXCEPT !.pc = "scheduled"]

\* the coroutine of a task returns (or is cancelled before it starts): the
\* task is finished
TaskReturn(t) == [t EXCEPT !.pc = "done"]

\* what _execute_job resolves for a job type at line 169: the kind of the
\* registered backend, and whether the outbound call is then issued
Dispatch(job_type, called) ==
    [backend |-> IF job_type \in DOMAIN agents THEN agents[job_type].kind ELSE "none",
     called |-> called]

\* mutant: the status changes but the start time is not stamped
MarkRunning_NoStamp(job, now) == [job EXCEPT !.status = "running"]

\* _execute_job lines 165-166
MarkRunning(job, now) ==
    [job EXCEPT !.status = "running", !.started_at = Some(now)]

\* mutant: the result is stored but the status is left as it was
MarkCompleted_KeepStatus(job, now, result) ==
    [job EXCEPT !.completed_at = Some(now), !.result = Some(result)]

\* _execute_job lines 177-179
MarkCompleted(job, now, result) ==
    [job EXCEPT !.status = "completed", !.completed_at = Some(now),
                !.result = Some(result)]

\* mutant: the completion time is stamped but the status is left as it was
MarkCancelled_KeepStatus(job, now) == [job EXCEPT !.completed_at = Some(now)]

\* _execute_job lines 186-187 and cancel_job lines 112-113
MarkCancelled(job, now) ==
    [job EXCEPT !.status = "cancelled", !.completed_at = Some(now)]

\* mutant: a failure also restamps the record's creation time
MarkFailed_Restamp(job, now, error) ==
    [job EXCEPT !.status = "failed", !.completed_at = Some(now),
                !.error = Some(error), !.created_at = now + 1]

\* _execute_job lines 192-194
MarkFailed(job, now, error) ==
    [job EXCEPT !.status = "failed", !.completed_at = Some(now),
                !.error = Some(error)]

\* mutant: the unit leaves its entry in running_tasks
Finally_LeaveEntry(j) == running_tasks

\* _execute_job lines 197-200
Finally(j) == running_tasks \ {j}

\* --------------------------------------------------- backend responses
\* An artifact descriptor of a result body.  valid = FALSE stands for an entry
\* that ArtifactRegistration rejects or that is no mapping at all.
Descriptor(valid, type, job_id, dependencies) ==
    [valid |-> valid, type |-> type, job_id |-> job_id, service_id |-> None,
     dependencies |-> dependencies]

GoodDescriptor == Descriptor(TRUE, "model", Some(UnknownJobId), <<>>)
BadDescriptor == Descriptor(FALSE, "model", None, <<>>)

\* A response body as parsed by response.json(): a result map, and what its
\* "artifacts" entry holds: nothing ("absent"), a list of descriptors, or a
\* value a for loop cannot iterate (null, a number).
Body(kind, items) == [artifacts |-> [kind |-> kind, items |-> items]]

ServiceResults ==
    { Body("absent", <<>>),
      Body("list", <<BadDescriptor, GoodDescriptor, BadDescriptor>>),
      Body("not_iterable", <<>>) }

NoBody == Body("absent", <<>>)

\* the HTTP status codes a backend answers with: 200, another 2xx, and a 5xx
StatusCodes == {200, 201, 500}

\* What the outbound call can end with (no cancellation): an HTTP response (a
\* 200 carries a result body), an aiohttp.ClientError, or the total timeout.
Responses ==
    {[kind |-> "http", status |-> 200, body |-> b] : b \in ServiceResults}
    \cup {[kind |-> "http", status |-> c, body |-> NoBody] : c \in StatusCodes \ {200}}
    \cup {[kind |-> k, status |-> 0, body |-> NoBody] : k \in {"client_error", "timeout"}}

\* line 235: the message names the status the service returned (two parts)
StatusError(status) == <<"Service returned status", status>>

\* line 230: only status 200 is taken for success
IsSuccess(resp) == resp.kind = "http" /\ resp.status = 200

\* str(e) of the exception each failure raises, as the tuple of its parts
ErrorText(kind) ==
    CASE kind = "client_error" -> <<"Failed to communicate with service">>
      [] kind = "timeout" -> <<"">>
      [] kind = "no_url" -> <<"No service URL configured for job type">>
      [] kind = "session_closed" -> <<"Session is closed">>
      [] kind = "ingest" -> <<"artifacts entry cannot be read">>

\* AgentRegistry.execute_job line 140: the error raised when the handler's
\* validate_job rejects the job
ValidationError == <<"Agent cannot handle job">>

\* _register_service_artifacts raises (outside its per-entry try) when the
\* artifacts entry cannot be iterated
IngestRaises(body) == body.artifacts.kind = "not_iterable"

\* mutant: the producing job is taken from the descriptor
ProducingJob_FromDescriptor(j, d) == d.job_id

\* _register_service_artifacts line 260: job_id=job.id, whatever the
\* descriptor says
ProducingJob(j, d) == Some(j)

RECURSIVE IngestOutcomes(_, _, _, _, _)
\* the loop of _register_service_artifacts: every registry, id counter and
\* clock it can end with.  A rejected entry is logged and skipped.
IngestOutcomes(reg, uuid, c, j, items) ==
    IF items = <<>> THEN {[reg |-> reg, uuid |-> uuid, clock |-> c]}
    ELSE LET d == Head(items)
         IN IF d.valid
            THEN UNION { IngestOutcomes(
                            RegisterArtifact(reg, uuid + 1,
                                ArtifactRegistration(d.type, ProducingJob(j, d),
                                                     d.service_id, d.dependencies), t),
                            uuid + 1, t, j, Tail(items)) : t \in Now(c) }
            ELSE IngestOutcomes(reg, uuid, c, j, Tail(items))

\* the number of artifact ids a body's descriptors consume
IdsNeeded(body) ==
    IF body.artifacts.kind = "list"
    THEN Cardinality({i \in 1..Len(body.artifacts.items) : body.artifacts.items[i].valid})
    ELSE 0

\* mutant: the first descriptor that fails to register ends the ingestion
register_service_artifacts_StopAtFailure(reg, uuid, c, j, body) ==
    IF body.artifacts.kind = "list" /\ body.artifacts.items # <<>>
       /\ Head(body.artifacts.items).valid
    THEN IngestOutcomes(reg, uuid, c, j, <<Head(body.artifacts.items)>>)
    ELSE {[reg |-> reg, uuid |-> uuid, clock |-> c]}

\* MCPServer._register_service_artifacts
register_service_artifacts(reg, uuid, c, j, body) ==
    IF body.artifacts.kind = "list"
    THEN IngestOutcomes(reg, uuid, c, j, body.artifacts.items)
    ELSE {[reg |-> reg, uuid |-> uuid, clock |-> c]}

\* ------------------------------------------------------------ coordinator
\* mutant: the job is stored and launched before the dispatch check
submit_job_StoreFirst(job_type, payload) ==
    /\ can_handle_job(job_type) => Cardinality(DOMAIN jobs) < MaxJobs
    /\ \E now \in Now(clock):
         LET id == Cardinality(DOMAIN jobs) + 1
             job == Job(id, job_type, payload, now)
         IN /\ clock' = now
            /\ IF ~can_handle_job(job_type)
               THEN /\ ret' = [op |-> "submit_job", arg |-> Some(job_type),
                               val |-> "ValueError"]
                    /\ Cardinality(DOMAIN jobs) < MaxJobs
                    /\ jobs' = Put(jobs, id, job)
                    /\ task' = Put(task, id, NewTask)
                    /\ running_tasks' = running_tasks \cup {id}
                    /\ status_writes' = Put(status_writes, id, <<"pending">>)
               ELSE /\ jobs' = Put(jobs, id, job)
                    /\ task' = Put(task, id, NewTask)
                    /\ running_tasks' = running_tasks \cup {id}
                    /\ status_writes' = Put(status_writes, id, <<"pending">>)
                    /\ ret' = [op |-> "submit_job", arg |-> Some(job_type),
                               val |-> "accepted"]
    /\ UNCHANGED <<registryVars, http_session, shutdown_pc, gathered,
                   artifactVars, cancel_won, deleted, dispatched>>

\* MCPServer.submit_job
submit_job(job_type, payload) ==
    /\ can_handle_job(job_type) => Cardinality(DOMAIN jobs) < MaxJobs
    /\ \E now \in Now(clock):
         LET id == Cardinality(DOMAIN jobs) + 1
             job == Job(id, job_type, payload, now)
         IN /\ clock' = now
            /\ IF ~can_handle_job(job_type)
               THEN /\ ret' = [op |-> "submit_job", arg |-> Some(job_type),
                               val |-> "ValueError"]
                    /\ UNCHANGED <<jobs, running_tasks, task, status_writes>>
               ELSE /\ jobs' = Put(jobs, id, job)
                    /\ task' = Put(task, id, NewTask)
                    /\ running_tasks' = running_tasks \cup {id}
                    /\ status_writes' = Put(status_writes, id, <<"pending">>)
                    /\ ret' = [op |-> "submit_job", arg |-> Some(job_type),
                               val |-> "accepted"]
    /\ UNCHANGED <<registryVars, http_session, shutdown_pc, gathered,
                   artifactVars, cancel_won, deleted, dispatched>>

\* mutant: only a completed job counts as finished
AlreadyFinished_CompletedOnly(job) == job.status = "completed"

\* cancel_job line 102: the job is in a terminal status
AlreadyFinished(job) == job.status \in TerminalStatus

\* mutant: the task is forgotten but never interrupted
CancelRunningTask_NoInterrupt(job_id) == task

\* cancel_job lines 106-108: interrupt the job's task if it has an entry
CancelRunningTask(job_id) ==
    IF job_id \in running_tasks
    THEN [task EXCEPT ![job_id] = TaskCancel(@)]
    ELSE task

\* MCPServer.cancel_job
cancel_job(job_id) ==
    /\ IF job_id \notin DOMAIN jobs
       THEN /\ ret' = [op |-> "cancel_job", arg |-> Some(job_id), val |-> FALSE]
            /\ UNCHANGED <<jobs, running_tasks, task, clock, historyVars>>
       ELSE IF AlreadyFinished(jobs[job_id])
       THEN /\ ret' = [op |-> "cancel_job", arg |-> Some(job_id), val |-> FALSE]
            /\ UNCHANGED <<jobs, running_tasks, task, clock, historyVars>>
       ELSE \E now \in Now(clock):
            /\ task' = CancelRunningTask(job_id)
            /\ running_tasks' = running_tasks \ {job_id}
            /\ jobs' = [jobs EXCEPT ![job_id] = MarkCancelled(@, now)]
            /\ status_writes' = [status_writes EXCEPT ![job_id] = Append(@, "cancelled")]
            /\ cancel_won' = cancel_won \cup {job_id}
            /\ clock' = now
            /\ ret' = [op |-> "cancel_job", arg |-> Some(job_id), val |-> TRUE]
    /\ UNCHANGED <<registryVars, http_session, shutdown_pc, gathered, artifactVars,
                   deleted, dispatched>>

\* MCPServer._execute_job, first step: from the start of the coroutine to the
\* outbound call (or to the end, when no call is made)
execute_job_start(j) ==
    /\ j \in DOMAIN task
    /\ task[j].pc = "scheduled"
    /\ IF task[j].must_cancel
       THEN \* CancelledError is thrown into a coroutine that has not started:
            \* no line of its body runs, the finally clause included
            /\ task' = [task EXCEPT ![j] = TaskReturn(@)]
            /\ UNCHANGED <<jobs, running_tasks, http_session, clock, status_writes,
                           dispatched>>
       ELSE \E t1 \in Now(clock):
            LET running == MarkRunning(jobs[j], t1)
                url == get_service_url(jobs[j].type)
                why == IF url = None THEN "no_url" ELSE "session_closed"
            IN IF url = None \/ http_session = "closed"
               THEN \E t2 \in Now(t1):
                    /\ jobs' = [jobs EXCEPT ![j] = MarkFailed(running, t2, ErrorText(why))]
                    /\ status_writes' = [status_writes EXCEPT
                                            ![j] = @ \o <<"running", "failed">>]
                    /\ running_tasks' = Finally(j)
                    /\ task' = [task EXCEPT ![j] = TaskReturn(@)]
                    /\ dispatched' = Put(dispatched, j,
                           Append(Get(dispatched, j, <<>>), Dispatch(jobs[j].type, FALSE)))
                    /\ clock' = t2
                    /\ UNCHANGED http_session
               ELSE /\ jobs' = [jobs EXCEPT ![j] = running]
                    /\ status_writes' = [status_writes EXCEPT ![j] = Append(@, "running")]
                    /\ http_session' = "open"
                    /\ task' = [task EXCEPT ![j].pc = "awaiting"]
                    /\ dispatched' = Put(dispatched, j,
                           Append(Get(dispatched, j, <<>>), Dispatch(jobs[j].type, TRUE)))
                    /\ clock' = t1
                    /\ UNCHANGED running_tasks
    /\ UNCHANGED <<registryVars, shutdown_pc, gathered, artifactVars, cancel_won,
                   deleted, ret>>

\* MCPServer._execute_job, second step: from the end of the outbound call to
\* the end of the coroutine
execute_job_resume(j) ==
    /\ j \in DOMAIN task
    /\ task[j].pc = "awaiting"
    /\ task' = [task EXCEPT ![j] = TaskReturn(@)]
    /\ running_tasks' = Finally(j)
    /\ IF task[j].must_cancel
       THEN \E t \in Now(clock):
            /\ jobs' = [jobs EXCEPT ![j] = MarkCancelled(@, t)]
            /\ status_writes' = [status_writes EXCEPT ![j] = Append(@, "cancelled")]
            /\ clock' = t
            /\ UNCHANGED artifactVars
       ELSE \E resp \in Responses:
            /\ artifact_uuid + IdsNeeded(resp.body) <= MaxArtifacts
            /\ IF IsSuccess(resp)
               THEN \E t1 \in Now(clock):
                    LET completed == MarkCompleted(jobs[j], t1, resp.body)
                    IN IF IngestRaises(resp.body)
                       THEN \E t2 \in Now(t1):
                            /\ jobs' = [jobs EXCEPT
                                          ![j] = MarkFailed(completed, t2, ErrorText("ingest"))]
                            /\ status_writes' = [status_writes EXCEPT
                                                   ![j] = @ \o <<"completed", "failed">>]
                            /\ clock' = t2
                            /\ UNCHANGED artifactVars
                       ELSE \E out \in register_service_artifacts(
                                           artifact_registry, artifact_uuid, t1, j, resp.body):
                            /\ jobs' = [jobs EXCEPT ![j] = completed]
                            /\ status_writes' = [status_writes EXCEPT
                                                   ![j] = Append(@, "completed")]
                            /\ artifact_registry' = out.reg
                            /\ artifact_uuid' = out.uuid
                            /\ clock' = out.clock
               ELSE \E t \in Now(clock):
                    /\ jobs' = [jobs EXCEPT ![j] =
                                  MarkFailed(@, t, IF resp.kind = "http"
                                                   THEN StatusError(resp.status)
                                                   ELSE ErrorText(resp.kind))]
                    /\ status_writes' = [status_writes EXCEPT ![j] = Append(@, "failed")]
                    /\ clock' = t
                    /\ UNCHANGED artifactVars
    /\ UNCHANGED <<registryVars, http_session, shutdown_pc, gathered, cancel_won,
                   deleted, dispatched, ret>>

\* MCPServer.shutdown, up to the gather (or to the end when nothing is running)
shutdown_begin ==
    /\ shutdown_pc = "idle"
    /\ task' = [j \in DOMAIN task |->
                  IF j \in running_tasks THEN TaskCancel(task[j]) ELSE task[j]]
    /\ IF running_tasks # {}
       THEN /\ gathered' = running_tasks
            /\ shutdown_pc' = "gathering"
            /\ UNCHANGED http_session
       ELSE /\ http_session' = IF http_session = "none" THEN "none" ELSE "closed"
            /\ shutdown_pc' = "done"
            /\ UNCHANGED gathered
    /\ UNCHANGED <<registryVars, jobs, running_tasks, artifactVars, clock, historyVars, ret>>

\* MCPServer.shutdown, after the gather: every gathered task has settled
shutdown_finish ==
    /\ shutdown_pc = "gathering"
    /\ \A j \in gathered : task[j].pc = "done"
    /\ http_session' = IF http_session = "none" THEN "none" ELSE "closed"
    /\ shutdown_pc' = "done"
    /\ UNCHANGED <<registryVars, jobs, running_tasks, task, gathered, artifactVars,
                   clock, historyVars, ret>>

\* ------------------------------------------------------------- job listing
RECURSIVE InsertDesc(_, _)
\* place id x after every entry whose created_at is >= its own (stable)
InsertDesc(sorted, x) ==
    IF sorted = <<>> THEN <<x>>
    ELSE IF jobs[Head(sorted)].created_at >= jobs[x].created_at
         THEN <<Head(sorted)>> \o InsertDesc(Tail(sorted), x)
         ELSE <<x>> \o sorted

RECURSIVE SortNewestFirst(_)
\* jobs.sort(key=created_at, reverse=True): a stable sort
SortNewestFirst(ids) ==
    IF ids = <<>> THEN <<>>
    ELSE InsertDesc(SortNewestFirst(SubSeq(ids, 1, Len(ids) - 1)), ids[Len(ids)])

RECURSIVE StoredIds(_)
\* list(self.jobs.values()): insertion order, which is id order
StoredIds(n) == IF n = 0 THEN <<>> ELSE Append(StoredIds(n - 1), n)

\* the status filter of list_jobs (line 130-131); None means no filter
FilterStatus(ids, status_filter) ==
    IF status_filter = None THEN ids
    ELSE SelectSeq(ids, LAMBDA i : jobs[i].status = status_filter[1])

\* the limit of list_jobs (lines 137-138): "if limit:" skips None and 0
ApplyLimit(ids, limit) ==
    IF limit # None /\ limit[1] # 0
    THEN SubSeq(ids, 1, Min(limit[1], Len(ids)))
    ELSE ids

\* MCPServer.list_jobs (the ids of the JobResponse views, in order)
list_jobs(status_filter, limit) ==
    ApplyLimit(
        SortNewestFirst(FilterStatus(StoredIds(Cardinality(DOMAIN jobs)), status_filter)),
        limit)

\* ---------------------------------------------------- artifact registry API
\* Ids a caller may name: every id issued so far and one that is never issued.
UnknownArtifactId == MaxArtifacts + 1
CallerArtifactIds == 1..UnknownArtifactId
KnownTargets == (1..artifact_uuid) \cup {UnknownArtifactId}

RECURSIVE SeqsUpTo(_, _)
\* every sequence over S of length at most n
SeqsUpTo(S, n) ==
    IF n = 0 THEN {<<>>}
    ELSE LET shorter == SeqsUpTo(S, n - 1)
         IN shorter \cup {Append(q, x) : q \in shorter, x \in S}

\* the dependency lists a caller may declare: edges onto ids it has seen, live
\* or deleted, or onto an id that names nothing
DependencyLists ==
    SeqsUpTo({ArtifactReference(i, "model") : i \in KnownTargets}, MaxDeps)

\* the ids named by an artifact's declared edges
DeclaredTargets(artifact) ==
    {artifact.dependencies[i].artifact_id : i \in 1..Len(artifact.dependencies)}

Live == DOMAIN artifact_registry.artifacts

\* ArtifactRegistry.register_artifact, called from outside the coordinator
register_artifact(registration) ==
    /\ artifact_uuid < MaxArtifacts
    /\ \E now \in Now(clock):
         /\ artifact_registry' =
                RegisterArtifact(artifact_registry, artifact_uuid + 1, registration, now)
         /\ clock' = now
    /\ artifact_uuid' = artifact_uuid + 1
    /\ ret' = [op |-> "register_artifact", arg |-> Some(artifact_uuid + 1),
               val |-> TRUE]
    /\ UNCHANGED <<registryVars, serverVars, historyVars>>

\* ArtifactRegistry.delete_artifact
delete_artifact(artifact_id) ==
    /\ artifact_registry' = DeleteArtifact(artifact_registry, artifact_id)
    /\ ret' = [op |-> "delete_artifact", arg |-> Some(artifact_id),
               val |-> artifact_id \in DOMAIN artifact_registry.artifacts]
    /\ deleted' = IF artifact_id \in DOMAIN artifact_registry.artifacts
                  THEN Put(deleted, artifact_id,
                           DeclaredTargets(artifact_registry.artifacts[artifact_id]))
                  ELSE deleted
    /\ UNCHANGED <<registryVars, serverVars, artifact_uuid, clock, status_writes,
                   cancel_won, dispatched>>

\* ------------------------------------------------------------------- specs
Init ==
    /\ agents = EmptyDict
    /\ instances = EmptyDict
    /\ instance_count = 0
    /\ jobs = EmptyDict
    /\ running_tasks = {}
    /\ task = EmptyDict
    /\ http_session = "none"
    /\ shutdown_pc = "idle"
    /\ gathered = {}
    /\ artifact_registry = EmptyRegistry
    /\ artifact_uuid = 0
    /\ clock = 0
    /\ status_writes = EmptyDict
    /\ cancel_won = {}
    /\ dispatched = EmptyDict
    /\ deleted = EmptyDict
    /\ ret = [op |-> "init", arg |-> None, val |-> None]

Next ==
    \/ \E r \in LocalRegistrations : register(r[1], r[2])
    \/ \E t \in ServiceTypes : \E u \in ServiceUrls : register_external_service(t, u)
    \/ \E t \in JobTypes : \E p \in Payloads : submit_job(t, p)
    \/ \E j \in CallerJobIds : cancel_job(j)
    \/ \E j \in JobIds : execute_job_start(j)
    \/ \E j \in JobIds : execute_job_resume(j)
    \/ shutdown_begin
    \/ shutdown_finish

Spec == Init /\ [][Next]_vars

\* the artifact registry driven directly by its callers
NextArtifacts ==
    \/ \E p \in ArtifactProfiles : \E deps \in DependencyLists :
          register_artifact(ArtifactRegistration(p[1], p[2], p[3], deps))
    \/ \E a \in CallerArtifactIds : delete_artifact(a)

SpecArtifacts == Init /\ [][NextArtifacts]_vars

\* the dispatch registry driven directly by its callers
NextRegistry ==
    \/ \E t \in JobTypes : \E c \in AgentClasses : register(t, c)
    \/ clear
    \/ \E t \in JobTypes : get_agent(t)

SpecRegistry == Init /\ [][NextRegistry]_vars

\* ------------------------------------------------------------------ claims
StatusFilters == {None} \cup {Some(st) : st \in JobStatus}
Limits == {Some(n) : n \in 0..MaxLimit}

\* the changes of a job's status: adjacent assignments of different values
StatusChanges(j) ==
    { <<status_writes[j][i], status_writes[j][i + 1]>> :
        i \in {k \in 1..(Len(status_writes[j]) - 1) :
                   status_writes[j][k] # status_writes[j][k + 1]} }

\* C1: submitting a job type with no registered backend raises synchronously
\* and leaves the job store, running_tasks and the tasks as they were.
C1_SubmitUnregisteredLeavesNoTrace ==
    [][\A t \in JobTypes : \A p \in Payloads :
          (submit_job(t, p) /\ ~can_handle_job(t)) =>
              /\ ret'.op = "submit_job" /\ ret'.val = "ValueError"
              /\ jobs' = jobs
              /\ running_tasks' = running_tasks
              /\ task' = task]_vars

\* C1 witness: a submission has just been rejected while jobs are stored and
\* units are in flight
C1_Witness ==
    /\ ret.op = "submit_job" /\ ret.val = "ValueError"
    /\ DOMAIN jobs # {}
    /\ running_tasks # {}

\* C2: every change of a job's status is one of Pending->Running,
\* Running->Completed, Running->Failed, Running->Cancelled, so no terminal
\* status is entered from Pending and none is left again.
C2_OnlyThePathPendingRunningTerminal ==
    \A j \in DOMAIN jobs :
        StatusChanges(j) \subseteq
            { <<"pending", "running">>, <<"running", "completed">>,
              <<"running", "failed">>, <<"running", "cancelled">> }

\* C3: once a job is Completed, Failed or Cancelled, no later step writes any
\* field of its record.
C3_TerminalRecordNeverWritten ==
    [][\A j \in DOMAIN jobs :
          jobs[j].status \in TerminalStatus => jobs'[j] = jobs[j]]_vars

\* C4: the completion-versus-cancel race has one winner.  A job for which
\* cancel_job returned True is Cancelled from then on, with completed_at set
\* and no result, and its unit never records Completed or Failed; a cancel_job
\* that returned False for a stored job found it finalized, and what the unit
\* recorded stands.
C4_CancelRaceHasOneWinner ==
    /\ \A j \in cancel_won :
          /\ jobs[j].status = "cancelled"
          /\ jobs[j].completed_at # None
          /\ jobs[j].result = None
          /\ \A i \in 1..Len(status_writes[j]) :
                status_writes[j][i] \notin {"completed", "failed"}
    /\ (ret.op = "cancel_job" /\ ~ret.val /\ ret.arg[1] \in DOMAIN jobs) =>
          LET j == ret.arg[1]
          IN /\ jobs[j].status \in TerminalStatus
             /\ jobs[j].status = status_writes[j][Len(status_writes[j])]
             /\ j \notin cancel_won => jobs[j].completed_at # None

\* C4 witness: cancel_job returned True for a job whose unit was waiting for
\* its backend, and the unit has since run to its end
C4_Witness ==
    \E j \in cancel_won :
        /\ task[j].pc = "done"
        /\ status_writes[j] = <<"pending", "running", "cancelled", "cancelled">>

\* C5: cancel_job on a job that is already Completed, Failed or Cancelled
\* returns False and changes neither the record nor running_tasks.
C5_CancelOfTerminalJobIsNoOp ==
    [][\A j \in CallerJobIds :
          (cancel_job(j) /\ j \in DOMAIN jobs /\ jobs[j].status \in TerminalStatus) =>
              /\ ret'.val = FALSE
              /\ jobs' = jobs
              /\ running_tasks' = running_tasks
              /\ task' = task]_vars

\* C5 witness: cancel_job has just returned False for a job that had failed
C5_Witness ==
    /\ ret.op = "cancel_job" /\ ~ret.val
    /\ ret.arg[1] \in DOMAIN jobs
    /\ jobs[ret.arg[1]].status = "failed"

\* C6: cancel_job returns True exactly when the job exists and is Pending or
\* Running at the call, and then the job is Cancelled when it returns; for an
\* unknown id it returns False and nothing changes.
C6_CancelReturnsTrueIffLive ==
    [][\A j \in CallerJobIds :
          cancel_job(j) =>
              /\ ret'.val = (j \in DOMAIN jobs /\ jobs[j].status \in {"pending", "running"})
              /\ ret'.val => jobs'[j].status = "cancelled"
              /\ j \notin DOMAIN jobs =>
                    /\ jobs' = jobs /\ running_tasks' = running_tasks /\ task' = task]_vars

\* C6 witness: a cancel issued right after submit, before the unit's first step
C6_Witness ==
    /\ ret.op = "cancel_job" /\ ret.val
    /\ status_writes[ret.arg[1]] = <<"pending", "cancelled">>
    /\ task[ret.arg[1]].pc = "scheduled"

\* C7: a job that is never cancelled and whose backend answers successfully is
\* seen Pending, then Running, then Completed, and ends Completed with the
\* backend's result and no error.
C7_SuccessfulBackendEndsCompleted ==
    \A j \in DOMAIN jobs :
        (jobs[j].result # None /\ j \notin cancel_won /\ ~task[j].must_cancel) =>
            /\ jobs[j].status = "completed"
            /\ jobs[j].error = None
            /\ status_writes[j] = <<"pending", "running", "completed">>

\* the stored jobs a status filter lets through
Matching(f) == {j \in DOMAIN jobs : f = None \/ jobs[j].status = f[1]}

\* C8: list_jobs returns the jobs matching the filter, newest first, filter
\* before limit, and exactly min(n, number of matches) of them.
C8_ListJobsRespectsLimitExactly ==
    \A f \in StatusFilters : \A n \in Limits :
        LET r == list_jobs(f, n)
        IN /\ Len(r) = Min(n[1], Cardinality(Matching(f)))
           /\ SeqRange(r) \subseteq Matching(f)
           /\ \A a, b \in 1..Len(r) : a < b => r[a] # r[b]
           /\ \A a, b \in 1..Len(r) :
                 a < b => jobs[r[a]].created_at >= jobs[r[b]].created_at
           /\ \A x \in SeqRange(r) : \A y \in Matching(f) \ SeqRange(r) :
                 jobs[x].created_at >= jobs[y].created_at

\* C9: registering B with a dependency on a live A puts B among A's references
\* and A among B's dependencies, and that lasts while both live; once B is
\* deleted no artifact's references contain it.
C9_ReverseEdgeFollowsRegistrationAndDeletion ==
    /\ ret.op = "register_artifact" =>
          \A a \in DeclaredTargets(artifact_registry.artifacts[ret.arg[1]]) \cap Live :
              /\ ret.arg[1] \in SeqRange(get_artifact_references(a))
              /\ a \in SeqRange(get_artifact_dependencies(ret.arg[1]))
    /\ \A b \in Live : \A a \in DeclaredTargets(artifact_registry.artifacts[b]) \cap Live :
          /\ b \in SeqRange(get_artifact_references(a))
          /\ a \in SeqRange(get_artifact_dependencies(b))
    /\ ret.op = "delete_artifact" =>
          \A a \in Live : ret.arg[1] \notin SeqRange(get_artifact_references(a))

\* C9 witness: B, registered on a live A, has just been deleted and A lives on
C9_Witness ==
    /\ ret.op = "delete_artifact" /\ ret.val
    /\ \E a \in deleted[ret.arg[1]] \cap Live :
          get_artifact_references(a) = <<>>

\* what delete_artifact(id) must leave behind, said without the code's helpers
DeletedExactly(id) ==
    LET old == artifact_registry.artifacts
        gone == old[id]
        Stripped(index) ==
            /\ DOMAIN index' = DOMAIN index
            /\ \A k \in DOMAIN index : index'[k] = SeqFilterOut(index[k], id)
    IN /\ DOMAIN artifact_registry'.artifacts = DOMAIN old \ {id}
       /\ \A x \in DOMAIN old \ {id} :
             /\ artifact_registry'.artifacts[x].dependencies = old[x].dependencies
             /\ artifact_registry'.artifacts[x].referenced_by =
                   IF x \in DeclaredTargets(gone)
                   THEN SelectSeq(old[x].referenced_by, LAMBDA r : r.artifact_id # id)
                   ELSE old[x].referenced_by
             /\ [artifact_registry'.artifacts[x] EXCEPT !.referenced_by = <<>>]
                   = [old[x] EXCEPT !.referenced_by = <<>>]
       /\ Stripped(artifact_registry.artifacts_by_job)
       /\ Stripped(artifact_registry.artifacts_by_service)
       /\ Stripped(artifact_registry.artifacts_by_type)
       /\ UNCHANGED <<registryVars, serverVars, artifact_uuid>>

\* C10: delete_artifact on a live artifact removes its record, its entries in
\* the three indexes and its reverse edges on the artifacts it depended on, and
\* nothing else: its dependents keep their edge onto it and stay registered.
C10_DeleteRemovesOnlyItsOwnTraces ==
    [][\A id \in CallerArtifactIds :
          (delete_artifact(id) /\ id \in Live) => DeletedExactly(id)]_vars

\* C10 witness: an artifact has just been deleted and a live artifact still
\* declares an edge onto it
C10_Witness ==
    /\ ret.op = "delete_artifact" /\ ret.val
    /\ \E b \in Live : ret.arg[1] \in DeclaredTargets(artifact_registry.artifacts[b])

\* C11: get_artifact_references on an id with no live record (never issued, or
\* deleted) reports not-found, an outcome that differs from the empty list a
\* live artifact without references gets.
C11_ReferencesOfMissingIdIsNotFound ==
    \A id \in CallerArtifactIds \ Live : get_artifact_references(id) # <<>>

\* the live ids among a list of edges, in the order of the list
LiveInOrder(refs) == SelectSeq(EdgeIds(refs), LAMBDA i : i \in Live)

\* C12: get_artifact_dependencies of a live artifact returns the live records
\* its declared edges name, in declared order, and drops every dangling edge
\* without an error; get_artifact_references resolves referenced_by alike.
C12_GraphReadsDropDanglingEdges ==
    \A b \in Live :
        /\ get_artifact_dependencies(b) =
               LiveInOrder(artifact_registry.artifacts[b].dependencies)
        /\ get_artifact_references(b) =
               LiveInOrder(artifact_registry.artifacts[b].referenced_by)

\* C12 witness: a live artifact whose only dependency has been deleted reads
\* an empty dependency list
C12_Witness ==
    \E b \in Live :
        /\ Len(artifact_registry.artifacts[b].dependencies) = 1
        /\ DeclaredTargets(artifact_registry.artifacts[b]) \subseteq DOMAIN deleted
        /\ get_artifact_dependencies(b) = <<>>

\* the ids recorded in an artifact's referenced_by list
ReverseEdges(a) ==
    {artifact_registry.artifacts[a].referenced_by[i].artifact_id :
        i \in 1..Len(artifact_registry.artifacts[a].referenced_by)}

\* C13: for every live artifact, the ids in its referenced_by list are exactly
\* the live artifacts whose dependency list names it.
C13_ReverseEdgesMirrorLiveForwardEdges ==
    \A a \in Live :
        ReverseEdges(a) =
            {b \in Live : a \in DeclaredTargets(artifact_registry.artifacts[b])}

\* C13 witness: a live artifact that a since-deleted artifact depended on
\* carries no reverse edge
C13_Witness ==
    \E a \in Live : \E d \in DOMAIN deleted :
        /\ a \in deleted[d]
        /\ d \notin Live
        /\ ReverseEdges(a) = {}

\* C14: registration is last-write-wins: resolving a type yields a handler of
\* the class registered last for it, whatever reads came before.
C14_ResolveYieldsLastRegistered ==
    [][\A t \in JobTypes :
          (get_agent(t) /\ t \in DOMAIN agents) =>
              /\ ret'.val # None
              /\ ret'.val[1].cls = agents[t].backend]_vars

\* C15: can_handle_job is true exactly when get_agent returns a handler, which
\* is exactly when the type is listed by get_supported_job_types; the list
\* holds each registered type once; an unregistered type resolves to None.
C15_RegistryReadsAgree ==
    [][\A t \in JobTypes :
          get_agent(t) =>
              /\ can_handle_job(t) <=> ret'.val # None
              /\ can_handle_job(t) <=> t \in SeqRange(get_supported_job_types)
              /\ SeqRange(get_supported_job_types) = DOMAIN agents
              /\ Len(get_supported_job_types) = Cardinality(DOMAIN agents)]_vars

\* C15 witness: after a clear and a new registration, an unregistered type
\* has just resolved to None while another type is registered
C15_Witness ==
    /\ ret.op = "get_agent" /\ ret.val = None
    /\ ret.arg[1] \notin DOMAIN agents
    /\ DOMAIN agents # {}
    /\ instance_count > 0 /\ instances = EmptyDict

\* C16: the first get_agent of a registered type creates its instance, and a
\* get_agent of the same type that follows with no clear in between returns
\* that same instance.
C16_RepeatedResolveReusesInstance ==
    [][\A t \in JobTypes :
          get_agent(t) =>
              /\ (t \in DOMAIN agents /\ t \notin DOMAIN instances) =>
                    /\ ret'.val = Some(instances'[t])
                    /\ instances'[t].serial = instance_count + 1
              /\ (ret.op = "get_agent" /\ ret.arg[1] = t /\ ret.val # None) =>
                    /\ ret'.val = ret.val
                    /\ instances' = instances]_vars

\* C16 witness: a second get_agent of a type has just returned the cached
\* instance, the first one constructed
C16_Witness ==
    /\ ret.op = "get_agent" /\ ret.arg[2]
    /\ ret.val = Some(instances[ret.arg[1]])
    /\ instance_count = 1

\* C17: whatever the result holds under "artifacts", ingestion never alters
\* the job: a job that was set to Completed is Completed, with its result and
\* no error.
C17_IngestionNeverAltersJob ==
    \A j \in DOMAIN jobs :
        "completed" \in SeqRange(status_writes[j]) =>
            /\ jobs[j].status = "completed"
            /\ jobs[j].result # None
            /\ jobs[j].error = None

\* the job was never asked to stop, by cancel_job or by shutdown
NeverCancelled(j) == j \notin cancel_won /\ ~task[j].must_cancel

\* what the job's record tells of the answer its call got: a result is stored
\* only from a 200 body, and the error text names any other status
Answered2xx(j) ==
    \/ jobs[j].result # None
    \/ \E c \in StatusCodes \cap 200..299 : jobs[j].error = Some(StatusError(c))

AnsweredFailure(j) ==
    \/ \E c \in StatusCodes \ 200..299 : jobs[j].error = Some(StatusError(c))
    \/ jobs[j].error \in {Some(ErrorText("client_error")), Some(ErrorText("timeout"))}

\* C18: for a job that is not cancelled, every 2xx answer ends it Completed
\* with the body as result, and every other answer or transport failure ends
\* it Failed.
C18_ResponseClassDecidesStatus ==
    \A j \in DOMAIN jobs :
        NeverCancelled(j) =>
            /\ Answered2xx(j) =>
                  /\ jobs[j].status = "completed"
                  /\ jobs[j].result # None /\ jobs[j].result[1] \in ServiceResults
            /\ AnsweredFailure(j) => jobs[j].status = "failed"

\* C19: result and error are never both set; a result is set only on a
\* Completed job and an error only on a Failed one.
C19_ResultAndErrorExclusive ==
    \A j \in DOMAIN jobs :
        /\ ~(jobs[j].result # None /\ jobs[j].error # None)
        /\ jobs[j].result # None => jobs[j].status = "completed"
        /\ jobs[j].error # None => jobs[j].status = "failed"

\* the assignments to completed_at so far: the coordinator assigns it together
\* with each terminal status and nowhere else (lines 112-113, 177-178, 186-187,
\* 192-193)
CompletedAtWrites(j) ==
    Cardinality({i \in 1..Len(status_writes[j]) : status_writes[j][i] \in TerminalStatus})

\* C20: completed_at is assigned once in a job's life, in the step that makes
\* the job terminal: never before, and never again after.
C20_CompletedAtAssignedOnce ==
    \A j \in DOMAIN jobs :
        /\ CompletedAtWrites(j) <= 1
        /\ CompletedAtWrites(j) = 1 <=> jobs[j].status \in TerminalStatus
        /\ jobs[j].completed_at # None <=> jobs[j].status \in TerminalStatus

\* the number of times a status value was assigned to a job
WritesOf(j, st) ==
    Cardinality({i \in 1..Len(status_writes[j]) : status_writes[j][i] = st})

\* C21: started_at is assigned at most once, in the step that takes the job
\* from Pending to Running; it is null as long as the job has never been
\* Running and never changes once set.
C21_StartedAtAssignedOnce ==
    [][\A j \in DOMAIN jobs :
          /\ WritesOf(j, "running") <= 1
          /\ jobs[j].started_at = None <=> WritesOf(j, "running") = 0
          /\ jobs[j].started_at # None => jobs'[j].started_at = jobs[j].started_at
          /\ jobs'[j].started_at # jobs[j].started_at =>
                /\ execute_job_start(j)
                /\ jobs[j].status = "pending"
                /\ status_writes'[j][Len(status_writes[j]) + 1] = "running"]_vars

\* C21 witness: a job that ran to completion carries a start time, while a
\* job cancelled before its unit ran carries none
C21_Witness ==
    /\ \E j \in DOMAIN jobs :
          jobs[j].status = "completed" /\ jobs[j].started_at # None
    /\ \E j \in DOMAIN jobs :
          jobs[j].status = "cancelled" /\ jobs[j].started_at = None

\* C22: an accepted submit_job stores the job Pending with no start time and
\* registers one unit under its id; the unit sets Running before it resolves
\* or calls a backend, so a call is issued only for a job that is Running.
C22_PendingThenRunningBeforeCall ==
    [][/\ \A t \in JobTypes : \A p \in Payloads :
             (submit_job(t, p) /\ can_handle_job(t)) =>
                 LET id == Cardinality(DOMAIN jobs) + 1
                 IN /\ DOMAIN jobs' = DOMAIN jobs \cup {id}
                    /\ jobs'[id].status = "pending"
                    /\ jobs'[id].started_at = None
                    /\ id \notin running_tasks
                    /\ running_tasks' = running_tasks \cup {id}
                    /\ DOMAIN task' = DOMAIN task \cup {id}
                    /\ task'[id].pc = "scheduled"
       /\ \A j \in DOMAIN task :
             /\ (execute_job_start(j) /\ ~task[j].must_cancel) =>
                   /\ jobs[j].status = "pending"
                   /\ status_writes'[j][Len(status_writes[j]) + 1] = "running"
             /\ (task[j].pc # "awaiting" /\ task'[j].pc = "awaiting") =>
                   jobs'[j].status = "running"]_vars

\* C22 witness: one job's call is in flight while a second job, just
\* accepted, waits for its unit's first step
C22_Witness ==
    /\ ret.op = "submit_job" /\ ret.val = "accepted"
    /\ \E j \in DOMAIN jobs : task[j].pc = "awaiting" /\ jobs[j].status = "running"
    /\ \E j \in DOMAIN jobs : task[j].pc = "scheduled" /\ jobs[j].status = "pending"

\* the passes a job's unit has made through address resolution, and the
\* outbound calls among them
Passes(j) == Get(dispatched, j, <<>>)
Calls(j) == Cardinality({i \in 1..Len(Passes(j)) : Passes(j)[i].called})

\* C23: no job is attempted twice: its unit runs at most once and issues at
\* most one backend call, and a job that has failed, been cancelled or
\* completed is never executed or called again.
C23_OneAttemptPerJob ==
    [][\A j \in DOMAIN jobs :
          /\ Len(Passes(j)) <= 1
          /\ Calls(j) <= 1
          /\ jobs[j].status \in TerminalStatus =>
                /\ Get(dispatched', j, <<>>) = Passes(j)
                /\ task'[j].pc # "awaiting" \/ task[j].pc = "awaiting"]_vars

\* C23 witness: a job whose one call failed rests Failed with its unit
\* finished, after further steps of another job
C23_Witness ==
    \E j, k \in DOMAIN jobs :
        /\ j # k
        /\ jobs[j].status = "failed" /\ Calls(j) = 1 /\ task[j].pc = "done"
        /\ jobs[k].status = "completed" /\ Calls(k) = 1

\* C24: every execution-time failure of a job that was not cancelled ends the
\* job Failed with completed_at set, the textual detail in error and no
\* result, and the unit absorbs it: the unit finishes and its entry is gone.
C24_FailureEndsFailedWithDetail ==
    \A j \in DOMAIN jobs :
        (NeverCancelled(j) /\ (jobs[j].status = "failed" \/ jobs[j].error # None)) =>
            /\ jobs[j].status = "failed"
            /\ jobs[j].completed_at # None
            /\ jobs[j].error # None /\ jobs[j].error # Some(<<"">>)
            /\ jobs[j].result = None
            /\ task[j].pc = "done"
            /\ j \notin running_tasks

\* the unit of the job has finished after resolving a local handler
RoutedToLocalHandler(j) ==
    /\ task[j].pc = "done"
    /\ Len(Passes(j)) = 1
    /\ Passes(j)[1].backend = "local"

\* C25: a job routed to a local handler either fails with a validation error
\* (validate rejected it, execute never ran) or ends Completed with what
\* execute returned as its result.
C25_LocalHandlerValidatesThenExecutes ==
    \A j \in DOMAIN jobs :
        (NeverCancelled(j) /\ RoutedToLocalHandler(j)) =>
            \/ jobs[j].status = "failed" /\ jobs[j].error = Some(ValidationError)
            \/ jobs[j].status = "completed" /\ jobs[j].result # None

\* the well-formed descriptors of a result body, in the order of its list
WellFormed(body) == SelectSeq(body.artifacts.items, LAMBDA d : d.valid)

\* C26: for a Completed job whose result carries a list of descriptors, every
\* well-formed descriptor is registered, whatever fails before or after it in
\* the list, and each is registered once.
C26_IngestionIsBestEffortPerDescriptor ==
    \A j \in DOMAIN jobs :
        (jobs[j].status = "completed" /\ jobs[j].result[1].artifacts.kind = "list") =>
            LET made == get_artifacts_by_job(j)
                want == WellFormed(jobs[j].result[1])
            IN /\ Len(made) = Len(want)
               /\ \A a, b \in 1..Len(made) : a # b => made[a] # made[b]
               /\ \A i \in 1..Len(made) :
                     /\ made[i] \in Live
                     /\ artifact_registry.artifacts[made[i]].type = want[i].type

\* C26 witness: a job completed with a list holding a well-formed descriptor
\* between two malformed ones, and its artifact is registered
C26_Witness ==
    \E j \in DOMAIN jobs :
        /\ jobs[j].status = "completed"
        /\ jobs[j].result[1].artifacts.kind = "list"
        /\ Len(jobs[j].result[1].artifacts.items) = 3
        /\ ~jobs[j].result[1].artifacts.items[1].valid
        /\ jobs[j].result[1].artifacts.items[2].valid
        /\ ~jobs[j].result[1].artifacts.items[3].valid
        /\ Len(get_artifacts_by_job(j)) = 1

\* C27: every artifact the coordinator registers from a job's result carries
\* that job as its producing job, whatever the descriptor said, and is listed
\* by get_artifacts_by_job for that job and for no other id.
C27_IngestedArtifactsBelongToCallingJob ==
    [][\A j \in JobIds :
          execute_job_resume(j) =>
              \A a \in (DOMAIN artifact_registry'.artifacts) \ Live :
                  /\ artifact_registry'.artifacts[a].job_id = Some(j)
                  /\ a \in SeqRange(GetArtifactsByJob(artifact_registry', j))
                  /\ \A k \in CallerJobIds \ {j} :
                        a \notin SeqRange(GetArtifactsByJob(artifact_registry', k))]_vars

\* C27 witness: two jobs have each had an artifact registered from a result
\* whose descriptor named another job
C27_Witness ==
    /\ Cardinality(Live) = 2
    /\ \A j \in JobIds :
          /\ j \in DOMAIN jobs
          /\ Len(get_artifacts_by_job(j)) = 1
          /\ \E i \in 1..Len(jobs[j].result[1].artifacts.items) :
                LET d == jobs[j].result[1].artifacts.items[i]
                IN d.valid /\ d.job_id # Some(j)

\* C28: shutdown releases the HTTP session only after every outstanding unit
\* has settled: at the step that closes the session no unit is waiting on a
\* call, and no unit turns to the session once it is closed.
C28_SessionReleasedAfterUnitsSettle ==
    [][/\ (http_session # "closed" /\ http_session' = "closed") =>
             \A j \in DOMAIN task : task[j].pc # "awaiting"
       /\ http_session = "closed" =>
             \A j \in DOMAIN jobs :
                 LET after == Get(dispatched', j, <<>>)
                 IN after # Passes(j) => after[Len(after)].backend # "remote"]_vars

\* C29: when shutdown has returned, every job that was Pending or Running when
\* it began (the jobs whose units it cancelled and awaited) is in a terminal
\* status with completed_at set and has no entry in running_tasks.
C29_ShutdownFinalizesLiveJobs ==
    shutdown_pc = "done" =>
        \A j \in gathered :
            /\ jobs[j].status \in TerminalStatus
            /\ jobs[j].completed_at # None
            /\ j \notin running_tasks

\* ArtifactRegistry.register_artifact statement by statement: the registry
\* before the call, after the store (61), after _update_indexes (64) and after
\* _update_dependency_references (67); the await of line 67 is reached at
\* stage 3
RegisterArtifactRun(reg, id, registration, now) ==
    LET artifact == Artifact(id, registration, now)
        stored == [reg EXCEPT !.artifacts = Put(@, id, artifact)]
        indexed == update_indexes(stored, artifact)
        linked == update_dependency_references(indexed, artifact)
    IN IF id \in DOMAIN reg.artifacts
       THEN [stages |-> <<reg>>, awaits |-> {}]
       ELSE [stages |-> <<reg, stored, indexed, linked>>, awaits |-> {3}]

\* ArtifactRegistry.delete_artifact statement by statement: the registry
\* before the call, after _remove_from_indexes (201), after
\* _remove_dependency_references (204) and after the del (207); the await of
\* line 204 is reached at stage 2
DeleteArtifactRun(reg, artifact_id) ==
    IF artifact_id \notin DOMAIN reg.artifacts
    THEN [stages |-> <<reg>>, awaits |-> {}]
    ELSE LET artifact == reg.artifacts[artifact_id]
             unindexed == remove_from_indexes(reg, artifact)
             unlinked == remove_dependency_references(unindexed, artifact)
             removed == [unlinked EXCEPT !.artifacts =
                            [x \in (DOMAIN @) \ {artifact_id} |-> @[x]]]
         IN [stages |-> <<reg, unindexed, unlinked, removed>>, awaits |-> {2}]

\* mutant: every await hands control to the event loop
Observable_AtAwaits(run) ==
    {run.stages[1], run.stages[Len(run.stages)]} \cup
    {run.stages[i] : i \in run.awaits}

\* the registry values a reader running on the same event loop can see around
\* one call: the value before it and the value after it. The only awaits inside
\* register_artifact and delete_artifact (67, 204, and 260, 274 in the loops
\* they call) await get_artifact (72-82), a coroutine with no await of its own,
\* so none of them returns control to the event loop.
Observable(run) == {run.stages[1], run.stages[Len(run.stages)]}

\* the ids an index holds, over all its buckets
Indexed(index) == UNION {SeqRange(index[k]) : k \in DOMAIN index}

\* a registry value in which the primary store, the three indexes and the
\* reverse-edge lists agree
Consistent(reg) ==
    LET live == DOMAIN reg.artifacts
        Bucket(index, key) == SeqRange(Get(index, key, <<>>))
        Targets(b) == {reg.artifacts[b].dependencies[i].artifact_id :
                          i \in 1..Len(reg.artifacts[b].dependencies)}
        Referrers(a) == {reg.artifacts[a].referenced_by[i].artifact_id :
                            i \in 1..Len(reg.artifacts[a].referenced_by)}
    IN /\ \A a \in live :
             /\ a \in Bucket(reg.artifacts_by_type, reg.artifacts[a].type)
             /\ reg.artifacts[a].job_id # None =>
                   a \in Bucket(reg.artifacts_by_job, reg.artifacts[a].job_id[1])
             /\ reg.artifacts[a].service_id # None =>
                   a \in Bucket(reg.artifacts_by_service, reg.artifacts[a].service_id[1])
             /\ Referrers(a) = {b \in live : a \in Targets(b)}
       /\ Indexed(reg.artifacts_by_type) \subseteq live
       /\ Indexed(reg.artifacts_by_job) \subseteq live
       /\ Indexed(reg.artifacts_by_service) \subseteq live

\* C30: register_artifact and delete_artifact take effect as one step for a
\* reader: every registry value a read interleaved with them can see has each
\* stored artifact in all the indexes and reverse-edge lists it belongs to, and
\* no index or reverse-edge list names an artifact that is not stored.
C30_IndexUpdatesAreAtomicForReaders ==
    [][/\ \A p \in ArtifactProfiles : \A deps \in DependencyLists :
             LET registration == ArtifactRegistration(p[1], p[2], p[3], deps)
                 run == RegisterArtifactRun(artifact_registry, artifact_uuid + 1,
                                            registration, clock')
             IN register_artifact(registration) =>
                   /\ artifact_registry' = run.stages[Len(run.stages)]
                   /\ \A seen \in Observable(run) : Consistent(seen)
       /\ \A a \in CallerArtifactIds :
             LET run == DeleteArtifactRun(artifact_registry, a)
             IN delete_artifact(a) =>
                   /\ artifact_registry' = run.stages[Len(run.stages)]
                   /\ \A seen \in Observable(run) : Consistent(seen)]_vars

\* C30 witness: an artifact registered with an edge onto a live artifact that
\* sits in all three indexes has just been deleted, and that artifact lives on
C30_Witness ==
    /\ ret.op = "delete_artifact" /\ ret.val
    /\ \E a \in deleted[ret.arg[1]] \cap Live :
          /\ artifact_registry.artifacts[a].job_id # None
          /\ artifact_registry.artifacts[a].service_id # None
          /\ Consistent(artifact_registry)

\* ------------------------------------------------------- artifact listing
RECURSIVE ArtifactInsertDesc(_, _)
\* place id x after every entry whose created_at is >= its own (stable)
ArtifactInsertDesc(sorted, x) ==
    IF sorted = <<>> THEN <<x>>
    ELSE IF artifact_registry.artifacts[Head(sorted)].created_at >=
               artifact_registry.artifacts[x].created_at
         THEN <<Head(sorted)>> \o ArtifactInsertDesc(Tail(sorted), x)
         ELSE <<x>> \o sorted

RECURSIVE ArtifactSortNewestFirst(_)
\* artifacts.sort(key=created_at, reverse=True) at line 120: a stable sort
ArtifactSortNewestFirst(ids) ==
    IF ids = <<>> THEN <<>>
    ELSE ArtifactInsertDesc(ArtifactSortNewestFirst(SubSeq(ids, 1, Len(ids) - 1)),
                            ids[Len(ids)])

RECURSIVE LiveKeys(_)
\* list(self._artifacts.keys()): insertion order, which is the order of issue
LiveKeys(n) ==
    IF n = 0 THEN <<>>
    ELSE IF n \in Live THEN Append(LiveKeys(n - 1), n) ELSE LiveKeys(n - 1)

\* the if/elif chain of list_artifacts (lines 105-112): the ids to look up
SelectIndex(artifact_type, job_id, service_id) ==
    IF artifact_type # None
    THEN Get(artifact_registry.artifacts_by_type, artifact_type[1], <<>>)
    ELSE IF job_id # None
    THEN Get(artifact_registry.artifacts_by_job, job_id[1], <<>>)
    ELSE IF service_id # None
    THEN Get(artifact_registry.artifacts_by_service, service_id[1], <<>>)
    ELSE LiveKeys(artifact_uuid)

\* ArtifactRegistry.list_artifacts (the ids of the artifacts returned, in order)
list_artifacts(artifact_type, job_id, service_id, limit) ==
    ApplyLimit(
        ArtifactSortNewestFirst(
            SelectSeq(SelectIndex(artifact_type, job_id, service_id),
                      LAMBDA i : i \in Live)),
        limit)

\* the filter values a caller may pass
TypeFilters == {None} \cup {Some(t) : t \in ArtifactTypes}
JobFilters == {None} \cup {Some(j) : j \in CallerJobIds}
ServiceFilters == {None, Some("svc"), Some("other")}

\* the live artifacts the one honoured filter lets through: type, else job
\* id, else service id, else every artifact
ArtifactsMatching(t, j, s) ==
    {a \in Live :
        IF t # None THEN artifact_registry.artifacts[a].type = t[1]
        ELSE IF j # None THEN artifact_registry.artifacts[a].job_id = j
        ELSE IF s # None THEN artifact_registry.artifacts[a].service_id = s
        ELSE TRUE}

\* C31: list_artifacts honours one filter (type, else job id, else service id,
\* else none), returns exactly the live artifacts matching it, newest first,
\* and applies the limit last: min(limit, number of matches) entries.
C31_ListArtifactsOneFilterThenLimit ==
    \A t \in TypeFilters : \A j \in JobFilters : \A s \in ServiceFilters :
        LET matches == ArtifactsMatching(t, j, s)
            all == list_artifacts(t, j, s, None)
        IN /\ SeqRange(all) = matches
           /\ Len(all) = Cardinality(matches)
           /\ \A a, b \in 1..Len(all) :
                 a < b => artifact_registry.artifacts[all[a]].created_at >=
                          artifact_registry.artifacts[all[b]].created_at
           /\ \A n \in Limits :
                 LET r == list_artifacts(t, j, s, n)
                 IN /\ Len(r) = Min(n[1], Cardinality(matches))
                    /\ r = SubSeq(all, 1, Len(r))

\* C32: register_artifact rejects a record only when its id is that of a live
\* artifact, and a rejected registration leaves the store, the indexes and the
\* reverse-edge lists as they were; a record whose edges name ids with no live
\* artifact is accepted with its edges as declared, and no reverse edge is
\* recorded for those ids.
C32_RejectsOnlyIdCollision ==
    [][\A p \in ArtifactProfiles : \A deps \in DependencyLists :
          LET registration == ArtifactRegistration(p[1], p[2], p[3], deps)
              new == artifact_uuid + 1
              dangling == {deps[i].artifact_id : i \in 1..Len(deps)} \ Live
          IN register_artifact(registration) =>
                /\ ret'.val = TRUE
                /\ DOMAIN artifact_registry'.artifacts = Live \cup {new}
                /\ artifact_registry'.artifacts[new].dependencies = deps
                /\ dangling \cap DOMAIN artifact_registry'.artifacts = {}
                /\ \A a \in Live :
                      a \notin {deps[i].artifact_id : i \in 1..Len(deps)} =>
                          artifact_registry'.artifacts[a].referenced_by =
                              artifact_registry.artifacts[a].referenced_by
                /\ \A id \in DOMAIN artifact_registry'.artifacts : \A t \in Now(clock') :
                      RegisterArtifact(artifact_registry', id, registration, t) =
                          artifact_registry']_vars

\* C32 witness: an artifact has just been registered with an edge onto an id
\* that has no live artifact, next to another live artifact
C32_Witness ==
    /\ ret.op = "register_artifact"
    /\ ret.arg[1] \in Live
    /\ DeclaredTargets(artifact_registry.artifacts[ret.arg[1]]) \ Live # {}
    /\ Cardinality(Live) >= 2

\* an artifact record without its reverse-edge list
Registered(artifact) == [artifact EXCEPT !.referenced_by = <<>>]

\* C33: an artifact's dependency list is the one supplied at registration, and
\* no later register_artifact or delete_artifact of any artifact changes it or
\* any other field of the record except referenced_by.
C33_RegisteredFieldsAreImmutable ==
    [][/\ \A a \in Live \cap DOMAIN artifact_registry'.artifacts :
             Registered(artifact_registry'.artifacts[a]) =
                 Registered(artifact_registry.artifacts[a])
       /\ \A p \in ArtifactProfiles : \A deps \in DependencyLists :
             register_artifact(ArtifactRegistration(p[1], p[2], p[3], deps)) =>
                 artifact_registry'.artifacts[artifact_uuid + 1].dependencies = deps]_vars

\* C33 witness: an artifact that declares an edge of its own has just gained a
\* reverse edge from a newly registered artifact
C33_Witness ==
    /\ ret.op = "register_artifact"
    /\ \E b \in Live \ {ret.arg[1]} :
          /\ artifact_registry.artifacts[b].dependencies # <<>>
          /\ ret.arg[1] \in ReverseEdges(b)

\* the step is an accepted submission
AcceptedSubmission ==
    \E t \in JobTypes : \E p \in Payloads : submit_job(t, p) /\ can_handle_job(t)

\* C34: the job store only grows: no step removes a record or changes the id,
\* type, payload or created_at of a stored job, an accepted submission adds
\* exactly one record under an id not used before, and no other step adds one.
C34_JobStoreOnlyGrows ==
    [][/\ DOMAIN jobs \subseteq DOMAIN jobs'
       /\ \A j \in DOMAIN jobs :
             /\ jobs'[j].id = jobs[j].id
             /\ jobs'[j].type = jobs[j].type
             /\ jobs'[j].payload = jobs[j].payload
             /\ jobs'[j].created_at = jobs[j].created_at
       /\ AcceptedSubmission =>
             \E new \in JobIds \ DOMAIN jobs :
                 /\ DOMAIN jobs' = DOMAIN jobs \cup {new}
                 /\ jobs'[new].id = new
       /\ ~AcceptedSubmission => DOMAIN jobs' = DOMAIN jobs]_vars

\* C34 witness: two jobs are stored after shutdown has returned, one that
\* failed and one that was cancelled
C34_Witness ==
    /\ shutdown_pc = "done"
    /\ \E j, k \in DOMAIN jobs :
          /\ jobs[j].status = "failed"
          /\ jobs[k].status = "cancelled"

\* an index whose bucket under every key holds, once each, exactly the live
\* artifacts that Belongs puts under that key
IndexAgrees(index, Belongs(_, _)) ==
    \A key \in DOMAIN index :
        /\ SeqRange(index[key]) = {a \in Live : Belongs(a, key)}
        /\ Len(index[key]) = Cardinality(SeqRange(index[key]))

\* every live artifact that Keyed gives a key has a bucket under that key
IndexCovers(index, Keyed(_), KeyOf(_)) ==
    \A a \in Live : Keyed(a) => KeyOf(a) \in DOMAIN index

\* C35: in every state reached by register_artifact and delete_artifact the
\* by-job, by-service and by-type buckets hold exactly the live artifacts with
\* that producing job, service or type, each id once, and no deleted id.
C35_IndexesAgreeWithStore ==
    LET A == artifact_registry.artifacts
    IN /\ IndexAgrees(artifact_registry.artifacts_by_job,
                      LAMBDA a, k : A[a].job_id = Some(k))
       /\ IndexCovers(artifact_registry.artifacts_by_job,
                      LAMBDA a : A[a].job_id # None, LAMBDA a : A[a].job_id[1])
       /\ IndexAgrees(artifact_registry.artifacts_by_service,
                      LAMBDA a, k : A[a].service_id = Some(k))
       /\ IndexCovers(artifact_registry.artifacts_by_service,
                      LAMBDA a : A[a].service_id # None, LAMBDA a : A[a].service_id[1])
       /\ IndexAgrees(artifact_registry.artifacts_by_type,
                      LAMBDA a, k : A[a].type = k)
       /\ IndexCovers(artifact_registry.artifacts_by_type,
                      LAMBDA a : TRUE, LAMBDA a : A[a].type)
       /\ \A d \in DOMAIN deleted :
             /\ d \notin Indexed(artifact_registry.artifacts_by_job)
             /\ d \notin Indexed(artifact_registry.artifacts_by_service)
             /\ d \notin Indexed(artifact_registry.artifacts_by_type)

\* C35 witness: a deletion has emptied one type bucket while an artifact of
\* another type, indexed under its job, lives on
C35_Witness ==
    /\ DOMAIN deleted # {}
    /\ \E k \in DOMAIN artifact_registry.artifacts_by_type :
          artifact_registry.artifacts_by_type[k] = <<>>
    /\ \E a \in Live : artifact_registry.artifacts[a].job_id # None

\* C36: delete_artifact(id) returns true exactly when a live artifact has that
\* id; for an unknown or already deleted id it returns false and changes
\* nothing, so a second deletion of the same id leaves the state of the first.
C36_DeleteIsIdempotent ==
    [][\A a \in CallerArtifactIds :
          delete_artifact(a) =>
              /\ ret'.val = (a \in Live)
              /\ a \notin Live =>
                    /\ artifact_registry' = artifact_registry
                    /\ deleted' = deleted
              /\ a \notin DOMAIN artifact_registry'.artifacts
              /\ DeleteArtifact(artifact_registry', a) = artifact_registry']_vars

\* C36 witness: an id deleted earlier has just been deleted again, and the
\* call has returned false
C36_Witness ==
    /\ ret.op = "delete_artifact"
    /\ ret.val = FALSE
    /\ ret.arg[1] \in DOMAIN deleted
    /\ Live # {}

\* the coordinator under a fair event loop: a unit that can take a step
\* eventually takes it (the backend call returns, fails or times out), and a
\* shutdown whose gathered units have all settled eventually returns
Fairness ==
    /\ \A j \in JobIds : WF_vars(execute_job_start(j))
    /\ \A j \in JobIds : WF_vars(execute_job_resume(j))
    /\ WF_vars(shutdown_finish)

SpecFair == Init /\ [][Next]_vars /\ Fairness

\* C37: under a fair event loop every accepted job eventually reaches a
\* terminal status, whether or not cancel_job or shutdown is called.
C37_AcceptedJobsTerminate ==
    \A j \in JobIds :
        (j \in DOMAIN jobs) ~> (j \in DOMAIN jobs /\ jobs[j].status \in TerminalStatus)

\* C38: the keys of running_tasks are ids of stored jobs that are Pending or
\* Running: a job in a terminal status, set by its own unit or by cancel_job,
\* has no entry.
C38_RunningTasksHoldOnlyLiveJobs ==
    \A j \in running_tasks :
        /\ j \in DOMAIN jobs
        /\ jobs[j].status \in {"pending", "running"}

\* C38 witness: one job has been completed by its unit and has no entry while
\* another is Running under its entry
C38_Witness ==
    \E j, k \in DOMAIN jobs :
        /\ jobs[j].status = "completed"
        /\ jobs[k].status = "running"
        /\ running_tasks = {k}

\* cancel_job returned True for the job while it was Pending, that is, before
\* its unit had taken its first step
CancelledBeforeStart(j) ==
    /\ j \in cancel_won
    /\ Len(status_writes[j]) >= 2
    /\ status_writes[j][2] = "cancelled"

\* C39: for a job that cancel_job cancelled before its unit's first step, no
\* backend is ever resolved or called, started_at stays null, no further
\* status is written and no artifact is ever registered for it.
C39_CancelledBeforeStartNeverRuns ==
    \A j \in DOMAIN jobs :
        CancelledBeforeStart(j) =>
            /\ Get(dispatched, j, <<>>) = <<>>
            /\ jobs[j].started_at = None
            /\ status_writes[j] = <<"pending", "cancelled">>
            /\ get_artifacts_by_job(j) = <<>>
            /\ \A a \in Live : artifact_registry.artifacts[a].job_id # Some(j)

\* C39 witness: the unit of a job cancelled before its first step has been
\* scheduled and has ended, while another job's call has been issued
C39_Witness ==
    \E j, k \in DOMAIN jobs :
        /\ CancelledBeforeStart(j)
        /\ task[j].pc = "done"
        /\ k # j
        /\ Get(dispatched, k, <<>>) # <<>>

\* C40: the coordinator registers an artifact for job j only in the step of
\* j's unit that has just set j to Completed; a job that was never Completed
\* (Failed outright, or Cancelled) has no artifact registered for it.
C40_ArtifactsIngestedOnlyOnSuccess ==
    [][/\ \A a \in (DOMAIN artifact_registry'.artifacts) \ Live :
             \E j \in DOMAIN jobs :
                 /\ execute_job_resume(j)
                 /\ artifact_registry'.artifacts[a].job_id = Some(j)
                 /\ jobs[j].status # "completed"
                 /\ jobs'[j].status = "completed"
       /\ \A j \in DOMAIN jobs' :
             (WritesOf(j, "completed")' = 0 \/ jobs'[j].status = "cancelled") =>
                 /\ GetArtifactsByJob(artifact_registry', j) = <<>>
                 /\ \A a \in DOMAIN artifact_registry'.artifacts :
                       artifact_registry'.artifacts[a].job_id # Some(j)]_vars

\* C40 witness: one job failed without ever being Completed and has no
\* artifact, while a Completed job has one registered from its result
C40_Witness ==
    \E j, k \in DOMAIN jobs :
        /\ status_writes[j] = <<"pending", "running", "failed">>
        /\ get_artifacts_by_job(j) = <<>>
        /\ jobs[k].status = "completed"
        /\ Len(get_artifacts_by_job(k)) >= 1

====
